---- MODULE Spec2Model ----
(***************************************************************************)
(* RBAC route protection: the server's protected routes (token check, then *)
(* role check, then handler) and the client's session store, route guards  *)
(* and route table.                                                        *)
(*                                                                         *)
(* The specifications share the data model:                                *)
(*   ServerSpec  the Express router of server/routes/protected.js with the *)
(*               protect and authorize middleware, the token service, the  *)
(*               identity store and a clock;                               *)
(*   Spec        the React client: AuthContext session, the route table of *)
(*               App.js, the three route guards, navigation and the data   *)
(*               pages' fetchData;                                         *)
(*   LiveSpec    Spec with the identity fetch of a rehydration settling;   *)
(*   PageSpec    Spec with the data request of a page settling;            *)
(*   ComponentSpec  RoleProtectedRoute, canAccess and the navigation bar   *)
(*               evaluated on their own, for every props and context.      *)
(* The client talks to the server only through tokens and responses, so    *)
(* the client specification takes the answers of the login and             *)
(* identity-fetch collaborators as nondeterministic inputs.                *)
(***************************************************************************)
EXTENDS Integers, Sequences, FiniteSets, TLC

VARIABLES
    \* ---- server side ----
    now,              \* server clock
    roleOf,           \* identity store: id -> role
    issued,           \* the token most recently issued by the token service
    resp,             \* the last request to a /protected route and its answer
    \* ---- client side ----
    persisted,        \* localStorage token
    user,             \* Session.identity
    token,            \* Session.token
    loading,          \* Session.loading
    isAuthenticated,  \* Session.isAuthenticated
    inflight,         \* the identity fetch of a pending rehydrate()
    location,         \* router location (pathname)
    origin,           \* the path of the last navigation the user made
    hops,             \* redirects followed since that navigation
    answer,           \* the last answer of the login or identity-fetch collaborator
    pageState,        \* useState of the data page on screen: loading, data, error
    \* ---- a component rendered on its own ----
    rendered          \* the last component evaluated with given props and context

serverVars == <<now, roleOf, issued, resp>>
clientVars == <<persisted, user, token, loading, isAuthenticated, inflight,
                location, origin, hops, answer,
                pageState>>
vars == <<serverVars, clientVars, rendered>>

----------------------------------------------------------------------------
(* Bounds *)

NumIds == 2      \* identities in the identity store
MaxTime == 3     \* the clock runs 0..MaxTime
MaxHops == 3     \* redirects followed per navigation before the model stops counting

----------------------------------------------------------------------------
(* Data model (spec section 3) *)

Roles == {"user", "manager", "admin"}
IDs == 1..NumIds
Times == 0..MaxTime

\* fixed token lifetime: expiresAt = issuedAt + TTL
TTL == 2

None == [kind |-> "none"]
NotRendered == [component |-> "none"]
Undefined == "undefined"

Identity(id, role) == [kind |-> "identity", id |-> id, role |-> role]
Identities == {Identity(i, r) : i \in IDs, r \in Roles}

\* tokens as the server sees them on a request
NoToken == [kind |-> "none"]
Malformed == [kind |-> "malformed"]

----------------------------------------------------------------------------
(* Token Service (spec section 4.1) *)

\* mutant: every token is issued with the default role
issue_DefaultRole(identity, t) ==
    [kind |-> "jwt", sub |-> identity.id, role |-> "user",
     iat |-> t, exp |-> t + TTL, sig |-> "ok"]

issue(identity, t) ==
    [kind |-> "jwt", sub |-> identity.id, role |-> identity.role,
     iat |-> t, exp |-> t + TTL, sig |-> "ok"]

\* a token with the same payload that was not signed with the server's secret
Forge(tok) == [tok EXCEPT !.sig = "bad"]

\* a token whose role was edited after signing: the signature no longer matches
Tamper(tok, r) == [tok EXCEPT !.role = r, !.sig = "bad"]

Failure(k) == [ok |-> FALSE, failure |-> k]
Claims(tok) == [ok |-> TRUE, subjectId |-> tok.sub, role |-> tok.role,
                expiresAt |-> tok.exp]

\* mutant: inclusive expiry, the token is still accepted at expiresAt
verify_Inclusive(tok, t) ==
    IF tok.kind # "jwt" THEN Failure("Malformed")
    ELSE IF tok.sig # "ok" THEN Failure("InvalidSignature")
    ELSE IF t > tok.exp THEN Failure("Expired")
    ELSE Claims(tok)

verify(tok, t) ==
    IF tok.kind # "jwt" THEN Failure("Malformed")
    ELSE IF tok.sig # "ok" THEN Failure("InvalidSignature")
    ELSE IF t >= tok.exp THEN Failure("Expired")
    ELSE Claims(tok)

----------------------------------------------------------------------------
(* Middleware (spec section 4.2) *)

\* A middleware answers either "next" (with the request's user) or a final
\* outcome.
Pass(u) == [next |-> TRUE, user |-> u, outcome |-> "next"]
Stop(o) == [next |-> FALSE, user |-> None, outcome |-> o]

\* mutant: the role attached to the request is the one the identity store
\* holds now, not the one in the token
protect_CurrentRole(tok, t) ==
    IF tok.kind = "none" THEN Stop("Unauthenticated")
    ELSE LET v == verify(tok, t) IN
         IF v.ok THEN Pass([kind |-> "user", _id |-> v.subjectId,
                            role |-> roleOf[v.subjectId]])
         ELSE Stop("Unauthenticated")

\* middleware/auth: the token check
protect(tok, t) ==
    IF tok.kind = "none" THEN Stop("Unauthenticated")
    ELSE LET v == verify(tok, t) IN
         IF v.ok THEN Pass([kind |-> "user", _id |-> v.subjectId, role |-> v.role])
         ELSE Stop("Unauthenticated")

ReqRole(u) == IF u.kind = "user" THEN u.role ELSE Undefined

\* middleware/rbac: authorize(...roles), the role check on req.user
authorize(allowed, u) ==
    IF ReqRole(u) \in allowed THEN Pass(u) ELSE Stop("Forbidden")

----------------------------------------------------------------------------
(* Router (server/routes/protected.js) *)

Routes == {"/user", "/manager", "/admin"}

Protect == [mw |-> "protect", roles |-> {}]
Authorize(roles) == [mw |-> "authorize", roles |-> roles]

\* mutant: the /user route registered without protect
UserStack_Unprotected == <<>>

\* router.get('/user', protect, handler)
UserStack == <<Protect>>

\* mutant: /manager lists only 'manager', counting on admin to pass as the
\* higher role
ManagerStack_ManagerOnly == <<Protect, Authorize({"manager"})>>

\* mutant: the role check registered before the token check
ManagerStack_RoleFirst == <<Authorize({"manager", "admin"}), Protect>>

\* router.get('/manager', protect, authorize('manager', 'admin'), handler)
ManagerStack == <<Protect, Authorize({"manager", "admin"})>>

\* mutant: /admin registered with the role list of /manager
AdminStack_AsManager == <<Protect, Authorize({"manager", "admin"})>>

\* router.get('/admin', protect, authorize('admin'), handler)
AdminStack == <<Protect, Authorize({"admin"})>>

RouteStack(route) ==
    CASE route = "/user" -> UserStack
      [] route = "/manager" -> ManagerStack
      [] route = "/admin" -> AdminStack

\* req.user.<field>: undefined when protect attached no such field
ReqField(u, f) == IF f \in DOMAIN u THEN u[f] ELSE Undefined

HandlerData(route) ==
    CASE route = "/user" -> "userProfile"
      [] route = "/manager" -> "reports"
      [] route = "/admin" -> "systemSettings"

\* mutant: the handler reads the caller from a variable of the module that
\* the request before this one wrote, not from its own req
Handler_PreviousCaller(route, u) ==
    IF resp.kind = "resp" /\ resp.tok.kind = "jwt"
    THEN [user |-> [id |-> resp.tok.sub, name |-> Undefined,
                    email |-> Undefined, role |-> resp.tok.role],
          data |-> HandlerData(route)]
    ELSE [user |-> [id |-> u._id, name |-> ReqField(u, "name"),
                    email |-> ReqField(u, "email"), role |-> u.role],
          data |-> HandlerData(route)]

\* the (req, res) => res.json({...}) handlers: the user block of the body and
\* which payload was sent
Handler(route, u) ==
    [user |-> [id |-> u._id, name |-> ReqField(u, "name"),
               email |-> ReqField(u, "email"), role |-> u.role],
     data |-> HandlerData(route)]

NoBody == [user |-> None, data |-> "none"]

ApplyMw(m, tok, t, u) ==
    IF m.mw = "protect" THEN protect(tok, t) ELSE authorize(m.roles, u)

\* Express runs the route's middleware in order; the first one that does not
\* call next() ends the request, and the handler runs after the last. A
\* handler that runs with req.user undefined throws on req.user._id, which
\* Express answers with a server error.
RECURSIVE RunStack(_, _, _, _, _)
RunStack(stack, i, tok, t, u) ==
    IF i > Len(stack)
    THEN [outcome |-> IF u.kind = "user" THEN "OK" ELSE "ServerError",
          handlerRan |-> TRUE, user |-> u]
    ELSE LET r == ApplyMw(stack[i], tok, t, u) IN
         IF r.next THEN RunStack(stack, i + 1, tok, t, r.user)
         ELSE [outcome |-> r.outcome, handlerRan |-> FALSE, user |-> None]

Dispatch(route, tok, t) ==
    LET r == RunStack(RouteStack(route), 1, tok, t, None) IN
    [kind |-> "resp", route |-> route, tok |-> tok, at |-> t,
     outcome |-> r.outcome, handlerRan |-> r.handlerRan,
     body |-> IF r.outcome = "OK" THEN Handler(route, r.user) ELSE NoBody]

----------------------------------------------------------------------------
(* Server actions *)

\* what a caller can attach to a request: nothing, garbage, the issued token,
\* or the issued token re-signed without the secret (as is, or with the role
\* edited to admin)
Presentable ==
    {NoToken, Malformed} \cup
    (IF issued.kind = "jwt"
     THEN {issued, Forge(issued), Tamper(issued, "admin")}
     ELSE {})

\* resp is the answer of the request handled in the last step; the server
\* keeps nothing of a request once it has answered
Tick ==
    /\ now < MaxTime
    /\ now' = now + 1
    /\ resp' = None
    /\ UNCHANGED <<roleOf, issued>>
    /\ UNCHANGED <<clientVars, rendered>>

\* login on the server: the credential check is external, the token is issued
\* for the identity as the store has it now
IssueToken(id) ==
    /\ issued' = issue(Identity(id, roleOf[id]), now)
    /\ resp' = None
    /\ UNCHANGED <<now, roleOf>>
    /\ UNCHANGED <<clientVars, rendered>>

\* the identity store changes a role (external collaborator)
ChangeRole(id, r) ==
    /\ roleOf[id] # r
    /\ roleOf' = [roleOf EXCEPT ![id] = r]
    /\ resp' = None
    /\ UNCHANGED <<now, issued>>
    /\ UNCHANGED <<clientVars, rendered>>

Request(route, tok) ==
    /\ resp' = Dispatch(route, tok, now)
    /\ UNCHANGED <<now, roleOf, issued>>
    /\ UNCHANGED <<clientVars, rendered>>

ServerInit ==
    /\ now = 0
    /\ roleOf \in [IDs -> Roles]
    /\ issued = None
    /\ resp = None

ServerIdle ==
    /\ now = 0
    /\ roleOf = [i \in IDs |-> "user"]
    /\ issued = None
    /\ resp = None

----------------------------------------------------------------------------
(* Client: route guards *)

Paths == {"/", "/login", "/register", "/home", "/user", "/manager", "/admin",
          "/unauthorized"}

\* what a route element evaluates to
Pending == [kind |-> "pending", arg |-> "Loading..."]
Redirect(to) == [kind |-> "redirect", arg |-> to]
Content(page) == [kind |-> "content", arg |-> page]

\* user?.role: undefined for no user and for a user object without role
UserRole ==
    IF user = None THEN Undefined
    ELSE IF "role" \in DOMAIN user THEN user.role
    ELSE Undefined

\* components/ProtectedRoute (AuthGuard, spec section 4.4)
ProtectedRoute(children) ==
    IF loading THEN Pending
    ELSE IF ~isAuthenticated THEN Redirect("/login")
    ELSE Content(children)

\* mutant: the role check made before the authentication check
RoleProtectedRoute_RoleFirst(children, allowedRoles) ==
    IF loading THEN Pending
    ELSE IF ~(UserRole \in allowedRoles) THEN Redirect("/unauthorized")
    ELSE IF ~isAuthenticated THEN Redirect("/login")
    ELSE Content(children)

\* mutant: an empty allowedRoles taken as "no restriction"
RoleProtectedRoute_EmptyOpen(children, allowedRoles) ==
    IF loading THEN Pending
    ELSE IF ~isAuthenticated THEN Redirect("/login")
    ELSE IF allowedRoles # {} /\ ~(UserRole \in allowedRoles)
         THEN Redirect("/unauthorized")
    ELSE Content(children)

\* components/RoleProtectedRoute.js
RoleProtectedRoute(children, allowedRoles) ==
    IF loading THEN Pending
    ELSE IF ~isAuthenticated THEN Redirect("/login")
    ELSE IF ~(UserRole \in allowedRoles) THEN Redirect("/unauthorized")
    ELSE Content(children)

\* ({ children, allowedRoles = [] }): the props as the caller wrote them, with
\* the default for an omitted allowedRoles
RoleProtectedRouteProps(props) ==
    RoleProtectedRoute(props.children,
                       IF "allowedRoles" \in DOMAIN props
                       THEN props.allowedRoles ELSE {})

\* components/NoAuthRoute (InverseGuard, spec section 4.4)
NoAuthRoute(children) ==
    IF isAuthenticated THEN Redirect("/home")
    ELSE Content(children)

\* mutant: /manager lists only 'manager'
ManagerRouteRoles_ManagerOnly == {"manager"}

\* App.js: allowedRoles of the /manager route
ManagerRouteRoles == {"manager", "admin"}

\* mutant: /admin given the list of /manager
AdminRouteRoles_AsManager == {"manager", "admin"}

\* App.js: allowedRoles of the /admin route
AdminRouteRoles == {"admin"}

\* mutant: the Unauthorized page registered without a guard
RouteElement_UnauthorizedOpen(path) ==
    CASE path = "/login" -> NoAuthRoute("Login")
      [] path = "/register" -> NoAuthRoute("Register")
      [] path = "/home" -> ProtectedRoute("Home")
      [] path = "/user" -> ProtectedRoute("UserPage")
      [] path = "/manager" -> RoleProtectedRoute("ManagerPage", ManagerRouteRoles)
      [] path = "/admin" -> RoleProtectedRoute("AdminPage", AdminRouteRoles)
      [] path = "/unauthorized" -> Content("Unauthorized")
      [] path = "/" -> Redirect("/home")

\* mutant: the Unauthorized page put behind the admin role guard
RouteElement_UnauthorizedGated(path) ==
    CASE path = "/login" -> NoAuthRoute("Login")
      [] path = "/register" -> NoAuthRoute("Register")
      [] path = "/home" -> ProtectedRoute("Home")
      [] path = "/user" -> ProtectedRoute("UserPage")
      [] path = "/manager" -> RoleProtectedRoute("ManagerPage", ManagerRouteRoles)
      [] path = "/admin" -> RoleProtectedRoute("AdminPage", AdminRouteRoles)
      [] path = "/unauthorized" -> RoleProtectedRoute("Unauthorized", AdminRouteRoles)
      [] path = "/" -> Redirect("/home")

\* mutant: /login and /register registered bare, as the guide's "Level 1:
\* Public Routes" shows them
RouteElement_PublicLogin(path) ==
    CASE path = "/login" -> Content("Login")
      [] path = "/register" -> Content("Register")
      [] path = "/home" -> ProtectedRoute("Home")
      [] path = "/user" -> ProtectedRoute("UserPage")
      [] path = "/manager" -> RoleProtectedRoute("ManagerPage", ManagerRouteRoles)
      [] path = "/admin" -> RoleProtectedRoute("AdminPage", AdminRouteRoles)
      [] path = "/unauthorized" -> ProtectedRoute("Unauthorized")
      [] path = "/" -> Redirect("/home")

\* App.js: <Routes>
RouteElement(path) ==
    CASE path = "/login" -> NoAuthRoute("Login")
      [] path = "/register" -> NoAuthRoute("Register")
      [] path = "/home" -> ProtectedRoute("Home")
      [] path = "/user" -> ProtectedRoute("UserPage")
      [] path = "/manager" -> RoleProtectedRoute("ManagerPage", ManagerRouteRoles)
      [] path = "/admin" -> RoleProtectedRoute("AdminPage", AdminRouteRoles)
      [] path = "/unauthorized" -> ProtectedRoute("Unauthorized")
      [] path = "/" -> Redirect("/home")

\* what the router shows for the current location and session
View == RouteElement(location)

\* mutant: exact match, the manager link only for a manager
canAccess_Exact(requiredRole) ==
    IF user = None THEN FALSE
    ELSE IF requiredRole = "user" THEN TRUE
    ELSE IF requiredRole = "manager" THEN UserRole = "manager"
    ELSE IF requiredRole = "admin" THEN UserRole = "admin"
    ELSE FALSE

\* mutant: an admin passes every requirement
canAccess_AdminAll(requiredRole) ==
    IF user = None THEN FALSE
    ELSE IF UserRole = "admin" THEN TRUE
    ELSE IF requiredRole = "user" THEN TRUE
    ELSE IF requiredRole = "manager" THEN UserRole = "manager"
    ELSE FALSE

\* Navigation.js canAccess
canAccess(requiredRole) ==
    IF user = None THEN FALSE
    ELSE IF requiredRole = "user" THEN TRUE
    ELSE IF requiredRole = "manager"
         THEN UserRole = "manager" \/ UserRole = "admin"
    ELSE IF requiredRole = "admin" THEN UserRole = "admin"
    ELSE FALSE

Null == [kind |-> "null"]

\* the <Link>s of the bar
NavLinks ==
    {"/home", "/user"}
    \cup (IF canAccess("manager") THEN {"/manager"} ELSE {})
    \cup (IF canAccess("admin") THEN {"/admin"} ELSE {})

\* mutant: the bar without its if (!user) return null
Navigation_NoUserCheck == [kind |-> "nav", links |-> NavLinks]

\* Navigation.js: the navigation bar
Navigation ==
    IF user = None THEN Null
    ELSE [kind |-> "nav", links |-> NavLinks]

----------------------------------------------------------------------------
(* Client: session store (AuthContext, spec section 4.3) and navigation *)

\* tokens a login can have left in localStorage
ClientTokens == {issue(i, 0) : i \in Identities}

\* the ways the identity fetch fails (spec section 7)
FetchFailures == {"NetworkFailure", "Unauthenticated", "Forbidden"}

NoAnswer == [op |-> "none", result |-> "none"]
FetchAnswer(result) == [op |-> "fetch", result |-> result]
LoginAnswer(result) == [op |-> "login", result |-> result]

\* UserPage, ManagerPage, AdminPage: the pages with a fetchData button
DataPages == {"UserPage", "ManagerPage", "AdminPage"}

\* useState(null), useState(false), useState(null)
PageIdle == [loading |-> FALSE, data |-> "null", error |-> "null"]

Mounted(v) == v.kind = "content" /\ v.arg \in DataPages

\* a page component keeps its state while it stays on screen and starts from
\* useState's initial values when it is mounted again
KeepPage ==
    pageState' = IF Mounted(View) /\ View' = View THEN pageState ELSE PageIdle

\* rehydrate(), its synchronous part: with a persisted token, loading is set
\* and the identity fetch is sent; without one there is nothing to wait for
Started(p, path) ==
    /\ persisted' = p
    /\ user' = None
    /\ token' = None
    /\ isAuthenticated' = FALSE
    /\ loading' = (p # None)
    /\ inflight' = p
    /\ location' = path
    /\ origin' = path
    /\ hops' = 0
    /\ answer' = NoAnswer
    /\ pageState' = PageIdle

\* the identity fetch answers with the current identity of the token's
\* subject
RehydrateSuccess(r) ==
    /\ inflight # None
    /\ user' = Identity(inflight.sub, r)
    /\ token' = inflight
    /\ isAuthenticated' = TRUE
    /\ loading' = FALSE
    /\ inflight' = None
    /\ answer' = FetchAnswer("ok")
    /\ UNCHANGED <<persisted, location, origin, hops>>
    /\ KeepPage
    /\ UNCHANGED <<serverVars, rendered>>

\* mutant: fail-open on a network failure, the Session is left as it was
RehydrateFail_NetworkOpen(k) ==
    /\ inflight # None
    /\ IF k = "NetworkFailure"
       THEN UNCHANGED <<persisted, user, token, isAuthenticated>>
       ELSE /\ persisted' = None
            /\ user' = None
            /\ token' = None
            /\ isAuthenticated' = FALSE
    /\ loading' = FALSE
    /\ inflight' = None
    /\ answer' = FetchAnswer(k)
    /\ UNCHANGED <<location, origin, hops>>
    /\ KeepPage
    /\ UNCHANGED <<serverVars, rendered>>

\* mutant: the failure path returns without setLoading(false)
RehydrateFail_StillLoading(k) ==
    /\ inflight # None
    /\ persisted' = None
    /\ user' = None
    /\ token' = None
    /\ isAuthenticated' = FALSE
    /\ inflight' = None
    /\ answer' = FetchAnswer(k)
    /\ UNCHANGED <<loading, location, origin, hops>>
    /\ KeepPage
    /\ UNCHANGED <<serverVars, rendered>>

\* the identity fetch fails (network, Unauthenticated, Forbidden)
RehydrateFail(k) ==
    /\ inflight # None
    /\ persisted' = None
    /\ user' = None
    /\ token' = None
    /\ isAuthenticated' = FALSE
    /\ loading' = FALSE
    /\ inflight' = None
    /\ answer' = FetchAnswer(k)
    /\ UNCHANGED <<location, origin, hops>>
    /\ KeepPage
    /\ UNCHANGED <<serverVars, rendered>>

\* login(credentials) succeeds: the Login form is on screen, the login
\* collaborator answers {token, identity}
LoginSuccess(identity) ==
    /\ View = Content("Login")
    /\ persisted' = issue(identity, 0)
    /\ token' = issue(identity, 0)
    /\ user' = identity
    /\ isAuthenticated' = TRUE
    /\ answer' = LoginAnswer("ok")
    /\ UNCHANGED <<loading, inflight, location, origin, hops>>
    /\ KeepPage
    /\ UNCHANGED <<serverVars, rendered>>

\* mutant: a failed login clears the Session as a failed rehydration does
LoginFail_ClearsSession ==
    /\ View = Content("Login")
    /\ persisted' = None
    /\ user' = None
    /\ token' = None
    /\ isAuthenticated' = FALSE
    /\ answer' = LoginAnswer("CredentialsInvalid")
    /\ UNCHANGED <<loading, inflight, location, origin, hops>>
    /\ KeepPage
    /\ UNCHANGED <<serverVars, rendered>>

\* login(credentials) fails: the Session is left as it is and the failure is
\* surfaced to the caller
LoginFail ==
    /\ View = Content("Login")
    /\ answer' = LoginAnswer("CredentialsInvalid")
    /\ UNCHANGED <<persisted, user, token, loading, isAuthenticated, inflight,
                   location, origin, hops>>
    /\ KeepPage
    /\ UNCHANGED <<serverVars, rendered>>

\* mutant: logout() forgets the in-memory token and identity
logout_KeepsToken ==
    /\ persisted' = None
    /\ isAuthenticated' = FALSE
    /\ UNCHANGED <<token, user>>

\* logout()
logout ==
    /\ persisted' = None
    /\ token' = None
    /\ user' = None
    /\ isAuthenticated' = FALSE

\* Navigation.js handleLogout: the button exists only while the bar renders
\* (if (!user) return null)
handleLogout ==
    /\ user # None
    /\ logout
    /\ location' = "/login"
    /\ origin' = "/login"
    /\ hops' = 0
    /\ UNCHANGED <<loading, inflight, answer>>
    /\ KeepPage
    /\ UNCHANGED <<serverVars, rendered>>

\* in-app navigation (a link, navigate(), back/forward): no reload
Navigate(path) ==
    /\ location' = path
    /\ origin' = path
    /\ hops' = 0
    /\ UNCHANGED <<persisted, user, token, loading, isAuthenticated, inflight,
                   answer>>
    /\ KeepPage
    /\ UNCHANGED <<serverVars, rendered>>

\* the URL is typed in or the page reloaded: a new client process, which
\* keeps only localStorage
Reload(path) ==
    /\ Started(persisted, path)
    /\ UNCHANGED <<serverVars, rendered>>

\* fetchData, up to the await: setLoading(true); setError(null); the request
\* is sent. The button is disabled while loading.
fetchData ==
    /\ Mounted(View)
    /\ ~pageState.loading
    /\ pageState' = [pageState EXCEPT !.loading = TRUE, !.error = "null"]
    /\ UNCHANGED <<persisted, user, token, loading, isAuthenticated, inflight,
                   location, origin, hops, answer>>
    /\ UNCHANGED <<serverVars, rendered>>

\* the request succeeded: setData(response.data); finally setLoading(false)
fetchDataResolved ==
    /\ Mounted(View)
    /\ pageState.loading
    /\ pageState' = [pageState EXCEPT !.data = "response", !.loading = FALSE]
    /\ UNCHANGED <<persisted, user, token, loading, isAuthenticated, inflight,
                   location, origin, hops, answer>>
    /\ UNCHANGED <<serverVars, rendered>>

\* mutant: a failed data request drops the stored token
fetchDataRejected_DropsToken ==
    /\ Mounted(View)
    /\ pageState.loading
    /\ pageState' = [pageState EXCEPT !.error = "message", !.loading = FALSE]
    /\ persisted' = None
    /\ UNCHANGED <<user, token, loading, isAuthenticated, inflight,
                   location, origin, hops, answer>>
    /\ UNCHANGED <<serverVars, rendered>>

\* mutant: setLoading(false) at the end of try instead of finally
fetchDataRejected_StaysLoading ==
    /\ Mounted(View)
    /\ pageState.loading
    /\ pageState.error = "null"
    /\ pageState' = [pageState EXCEPT !.error = "message"]
    /\ UNCHANGED <<persisted, user, token, loading, isAuthenticated, inflight,
                   location, origin, hops, answer>>
    /\ UNCHANGED <<serverVars, rendered>>

\* the request failed: catch setError(...); finally setLoading(false)
fetchDataRejected ==
    /\ Mounted(View)
    /\ pageState.loading
    /\ pageState' = [pageState EXCEPT !.error = "message", !.loading = FALSE]
    /\ UNCHANGED <<persisted, user, token, loading, isAuthenticated, inflight,
                   location, origin, hops, answer>>
    /\ UNCHANGED <<serverVars, rendered>>

\* <Navigate to=... replace />
FollowRedirect ==
    /\ View.kind = "redirect"
    /\ location' = View.arg
    /\ hops' = IF hops < MaxHops THEN hops + 1 ELSE hops
    /\ UNCHANGED <<persisted, user, token, loading, isAuthenticated, inflight,
                   origin, answer>>
    /\ KeepPage
    /\ UNCHANGED <<serverVars, rendered>>

ClientInit ==
    /\ persisted \in {None} \cup ClientTokens
    /\ location \in Paths
    /\ user = None
    /\ token = None
    /\ isAuthenticated = FALSE
    /\ loading = (persisted # None)
    /\ inflight = persisted
    /\ origin = location
    /\ hops = 0
    /\ answer = NoAnswer
    /\ pageState = PageIdle

ClientIdle ==
    /\ persisted = None
    /\ user = None
    /\ token = None
    /\ loading = FALSE
    /\ isAuthenticated = FALSE
    /\ inflight = None
    /\ location = "/"
    /\ origin = "/"
    /\ hops = 0
    /\ answer = NoAnswer
    /\ pageState = PageIdle

----------------------------------------------------------------------------
(* Specifications *)

ServerNext ==
    \/ Tick
    \/ \E id \in IDs : IssueToken(id)
    \/ \E id \in IDs, r \in Roles : ChangeRole(id, r)
    \/ \E route \in Routes, tok \in Presentable : Request(route, tok)

ServerStart == ServerInit /\ ClientIdle /\ rendered = NotRendered

ServerSpec == ServerStart /\ [][ServerNext]_vars

Next ==
    \/ \E r \in Roles : RehydrateSuccess(r)
    \/ \E k \in FetchFailures : RehydrateFail(k)
    \/ \E identity \in Identities : LoginSuccess(identity)
    \/ LoginFail
    \/ handleLogout
    \/ \E path \in Paths : Navigate(path)
    \/ \E path \in Paths : Reload(path)
    \/ FollowRedirect
    \/ fetchData
    \/ fetchDataResolved
    \/ fetchDataRejected

Init == ClientInit /\ ServerIdle /\ rendered = NotRendered

Spec == Init /\ [][Next]_vars

\* the HTTP request of a page's fetchData is answered or fails
DataRequestSettles == fetchDataResolved \/ fetchDataRejected

PageSpec == Init /\ [][Next]_vars /\ WF_vars(DataRequestSettles)

\* the role names a caller can write: the enumeration and the guide's 'editor'
RoleNames == Roles \cup {"editor"}

\* what useAuth() can hand a component as user: nothing, a user object
\* without role, a user with any role name
ContextUsers ==
    {None}
    \cup {[kind |-> "identity", id |-> i] : i \in IDs}
    \cup {Identity(i, r) : i \in IDs, r \in RoleNames}

\* <RoleProtectedRoute> with allowedRoles omitted or given
GuardProps ==
    {[children |-> "children"]}
    \cup {[children |-> "children", allowedRoles |-> R] : R \in SUBSET RoleNames}

RequiredRoles == RoleNames \cup {Undefined}

\* RoleProtectedRoute rendered with the given props in the current context
RenderRoleProtectedRoute(props) ==
    /\ rendered' = [component |-> "RoleProtectedRoute", props |-> props,
                    element |-> RoleProtectedRouteProps(props)]
    /\ UNCHANGED <<serverVars, clientVars>>

\* canAccess called with the given requiredRole in the current context
CallCanAccess(requiredRole) ==
    /\ rendered' = [component |-> "canAccess", props |-> requiredRole,
                    element |-> canAccess(requiredRole)]
    /\ UNCHANGED <<serverVars, clientVars>>

\* the navigation bar rendered in the current context
RenderNavigation ==
    /\ rendered' = [component |-> "Navigation", props |-> "none",
                    element |-> Navigation]
    /\ UNCHANGED <<serverVars, clientVars>>

\* a component on its own: the context values are inputs
ComponentStart ==
    /\ user \in ContextUsers
    /\ loading \in BOOLEAN
    /\ isAuthenticated \in BOOLEAN
    /\ persisted = None
    /\ token = None
    /\ inflight = None
    /\ location = "/"
    /\ origin = "/"
    /\ hops = 0
    /\ answer = NoAnswer
    /\ pageState = PageIdle
    /\ rendered = NotRendered
    /\ ServerIdle

ComponentNext ==
    \/ \E props \in GuardProps : RenderRoleProtectedRoute(props)
    \/ \E requiredRole \in RequiredRoles : CallCanAccess(requiredRole)
    \/ RenderNavigation

ComponentSpec == ComponentStart /\ [][ComponentNext]_vars

\* the identity fetch of a rehydration is an HTTP request: it is answered or
\* it fails (network error, timeout), it does not stay pending forever
FetchSettles ==
    \/ \E r \in Roles : RehydrateSuccess(r)
    \/ \E k \in FetchFailures : RehydrateFail(k)

LiveSpec == Init /\ [][Next]_vars /\ WF_vars(FetchSettles)

----------------------------------------------------------------------------
(* Properties of the server (checked under ServerSpec) *)

\* the token of the answered request was signed by the server and had not
\* expired when the request was handled
TokenVerified ==
    /\ resp.tok.kind = "jwt"
    /\ resp.tok.sig = "ok"
    /\ resp.at < resp.tok.exp

Answered == resp.kind = "resp"
Gated == {"/manager", "/admin"}

\* C1: with a verified token of role r, authorize(R) lets the request through
\* iff r is an element of R, for every set R of roles, and the handlers of the
\* two routes wrapped by authorize run iff r is in the list the route gives;
\* no role passes for being higher than a listed one.
C1_ExactMembership ==
    (Answered /\ TokenVerified) =>
        /\ \A R \in SUBSET Roles :
              authorize(R, protect(resp.tok, resp.at).user).next
                  <=> resp.tok.role \in R
        /\ resp.route = "/manager" =>
              (resp.handlerRan <=> resp.tok.role \in {"manager", "admin"})
        /\ resp.route = "/admin" =>
              (resp.handlerRan <=> resp.tok.role \in {"admin"})

\* a manager's verified token on /admin does not reach the handler
C1_Witness ==
    /\ Answered /\ TokenVerified
    /\ resp.route = "/admin"
    /\ resp.tok.role = "manager"
    /\ ~resp.handlerRan

\* C2: on each of the three protected routes, a request whose token is
\* missing, malformed, badly signed or expired is answered Unauthenticated
\* and the route handler does not run.
C2_VerificationFailureStops ==
    (Answered /\ ~TokenVerified) =>
        /\ resp.outcome = "Unauthenticated"
        /\ ~resp.handlerRan
        /\ resp.body = NoBody

\* an expired, correctly signed token on the route that has only the token
\* check
C2_Witness ==
    /\ Answered
    /\ resp.route = "/user"
    /\ resp.tok.kind = "jwt" /\ resp.tok.sig = "ok"
    /\ resp.at >= resp.tok.exp
    /\ resp.outcome = "Unauthenticated"

\* C3: every request to a role-gated route ends Unauthenticated, Forbidden or
\* OK (the handler ran exactly when it is OK); without a verified token it
\* ends Unauthenticated, never Forbidden; Forbidden is answered only to a
\* request whose token verified.
C3_TokenCheckFirst ==
    (Answered /\ resp.route \in Gated) =>
        /\ resp.outcome \in {"Unauthenticated", "Forbidden", "OK"}
        /\ resp.handlerRan <=> resp.outcome = "OK"
        /\ ~TokenVerified => resp.outcome = "Unauthenticated"
        /\ resp.outcome = "Forbidden" => TokenVerified

\* a token that fails verification and whose role is not allowed on the route
\* either: the answer is Unauthenticated
C3_Witness ==
    /\ Answered
    /\ resp.route = "/admin"
    /\ resp.tok.kind = "jwt" /\ resp.tok.role = "user"
    /\ ~TokenVerified
    /\ resp.outcome = "Unauthenticated"

\* the access matrix of the three routes
Matrix ==
    [route \in Routes |->
        CASE route = "/user" -> {"user", "manager", "admin"}
          [] route = "/manager" -> {"manager", "admin"}
          [] route = "/admin" -> {"admin"}]

\* C4: for a caller with a verified token, /user answers OK to user, manager
\* and admin; /manager answers OK to manager and admin and Forbidden to user;
\* /admin answers OK to admin and Forbidden to user and manager.
C4_AccessMatrix ==
    (Answered /\ TokenVerified) =>
        resp.outcome = IF resp.tok.role \in Matrix[resp.route]
                       THEN "OK" ELSE "Forbidden"

\* scenario A: role user on the route gated on {manager, admin} is Forbidden
C4_Witness ==
    /\ Answered /\ TokenVerified
    /\ resp.route = "/manager"
    /\ resp.tok.role = "user"
    /\ resp.outcome = "Forbidden"

\* C18: in the step that issues a token for an identity, verify of that
\* token at every time strictly before its expiresAt returns Claims with the
\* identity's id and the role the identity has at issuance, and expiresAt =
\* issuedAt + TTL; never a failure kind.
C18_RoundTrip ==
    [][\A id \in IDs :
          IssueToken(id) =>
             \A t \in 0..(now + TTL - 1) :
                verify(issued', t) =
                    [ok |-> TRUE, subjectId |-> id, role |-> roleOf[id],
                     expiresAt |-> now + TTL]
      ]_vars

\* a token issued after the clock started was accepted at the last instant
\* before its expiry, for a subject that is not a plain user
C18_Witness ==
    /\ Answered
    /\ issued.kind = "jwt"
    /\ resp.tok = issued
    /\ issued.iat > 0
    /\ issued.role # "user"
    /\ resp.at = issued.exp - 1
    /\ resp.outcome = "OK"

\* C19: a correctly signed token verified at t >= expiresAt = issuedAt + TTL
\* fails with Expired, t = expiresAt included, and a request to a protected
\* route made with it at such a time is answered Unauthenticated.
C19_ExpiryExclusive ==
    /\ issued.kind = "jwt" =>
          /\ issued.exp = issued.iat + TTL
          /\ \A t \in issued.exp..(MaxTime + TTL) :
                verify(issued, t) = Failure("Expired")
    /\ (Answered /\ resp.tok.kind = "jwt" /\ resp.tok.sig = "ok"
          /\ resp.at >= resp.tok.exp) =>
          /\ verify(resp.tok, resp.at) = Failure("Expired")
          /\ resp.outcome = "Unauthenticated"
          /\ ~resp.handlerRan

\* a request made exactly at the token's expiresAt
C19_Witness ==
    /\ Answered
    /\ issued.kind = "jwt"
    /\ resp.tok = issued
    /\ resp.at = resp.tok.exp
    /\ resp.tok.exp = resp.tok.iat + TTL
    /\ resp.outcome = "Unauthenticated"

\* C20: a request made with the issued, unexpired token of a subject whose
\* role in the identity store is no longer the token's role is admitted or
\* refused according to the token's role, and the handler reports the token's
\* role; a token issued afterwards carries the store's role.
C20_RoleFrozen ==
    /\ []((Answered /\ TokenVerified /\ roleOf[resp.tok.sub] # resp.tok.role)
            => /\ resp.outcome = IF resp.tok.role \in Matrix[resp.route]
                                 THEN "OK" ELSE "Forbidden"
               /\ resp.outcome = "OK" => resp.body.user.role = resp.tok.role)
    /\ [][(\E id \in IDs, r \in Roles : ChangeRole(id, r))
             => issued' = issued]_vars
    /\ [][\A id \in IDs : IssueToken(id) => issued'.role = roleOf[id]]_vars

\* an admin demoted to user after the token was issued is still admitted to
\* /admin
C20_Witness ==
    /\ Answered /\ TokenVerified
    /\ issued.kind = "jwt"
    /\ resp.tok = issued
    /\ resp.tok.role = "admin"
    /\ roleOf[resp.tok.sub] = "user"
    /\ resp.route = "/admin"
    /\ resp.outcome = "OK"

\* C24: in every OK answer of a /protected route, the token of that request
\* verified, and the user.id and user.role of the body are the subjectId and
\* role of the Claims of that token, whatever the requests before it carried.
C24_HandlerReadsCaller ==
    (Answered /\ resp.outcome = "OK") =>
        LET c == verify(resp.tok, resp.at) IN
        /\ c.ok
        /\ resp.handlerRan
        /\ resp.body.user.id = c.subjectId
        /\ resp.body.user.role = c.role

\* the second identity, a manager, reads its own id and role from /manager
C24_Witness ==
    /\ Answered
    /\ resp.outcome = "OK"
    /\ resp.route = "/manager"
    /\ resp.tok.sub = 2
    /\ resp.body.user.id = 2
    /\ resp.body.user.role = "manager"

----------------------------------------------------------------------------
(* Properties of the client (checked under Spec) *)

\* the routes App.js wraps in ProtectedRoute or RoleProtectedRoute
GuardedPaths == {"/home", "/user", "/manager", "/admin", "/unauthorized"}
GuardedPages == {"Home", "UserPage", "ManagerPage", "AdminPage", "Unauthorized"}
\* the routes App.js wraps in NoAuthRoute
PublicOnlyPaths == {"/login", "/register"}

\* C5: with loading false, RoleProtectedRoute(allowedRoles) redirects a
\* session that is not authenticated to /login; otherwise a user.role outside
\* allowedRoles to /unauthorized; otherwise it renders its children. So an
\* unauthenticated session is never sent to /unauthorized and children render
\* only when both checks pass. Stated for every allowedRoles over the roles.
C5_RoleGuardOrder ==
    ~loading =>
        \A R \in SUBSET Roles :
            LET e == RoleProtectedRoute("children", R) IN
            /\ ~isAuthenticated => e = Redirect("/login")
            /\ (isAuthenticated /\ UserRole \notin R) => e = Redirect("/unauthorized")
            /\ (isAuthenticated /\ UserRole \in R) => e = Content("children")
            /\ e = Content("children") => (isAuthenticated /\ UserRole \in R)

\* an unauthenticated session on a role-gated route whose redirect to /login
\* has been followed
C5_Witness ==
    /\ ~loading /\ ~isAuthenticated
    /\ origin = "/manager" /\ hops = 1
    /\ location = "/login"

\* C6 as claimed: while loading is true every guard of the route table yields
\* the pending placeholder, so none renders content or redirects.
C6_EveryGuardDefers ==
    loading =>
        \A p \in GuardedPaths \cup PublicOnlyPaths : RouteElement(p) = Pending

\* C7: the content of a guarded route is on screen only if loading is false,
\* the session is authenticated and, for ManagerPage and AdminPage, user.role
\* is in the route's allowedRoles.
C7_GuardedContent ==
    (View.kind = "content" /\ View.arg \in GuardedPages) =>
        /\ ~loading
        /\ isAuthenticated
        /\ View.arg = "ManagerPage" => UserRole \in {"manager", "admin"}
        /\ View.arg = "AdminPage" => UserRole \in {"admin"}

\* the admin page on screen
C7_Witness ==
    /\ View = Content("AdminPage")
    /\ UserRole = "admin"

LoggedIn == ~loading /\ isAuthenticated /\ user # None

\* C8: for a logged-in session, /manager renders ManagerPage for manager and
\* admin and redirects any other role to /unauthorized; /admin renders
\* AdminPage for admin and redirects any other role to /unauthorized.
C8_RoleRoutes ==
    LoggedIn =>
        /\ RouteElement("/manager") =
              IF UserRole \in {"manager", "admin"}
              THEN Content("ManagerPage") ELSE Redirect("/unauthorized")
        /\ RouteElement("/admin") =
              IF UserRole = "admin"
              THEN Content("AdminPage") ELSE Redirect("/unauthorized")

\* a manager who went to /admin and was redirected to the Unauthorized page
C8_Witness ==
    /\ LoggedIn /\ UserRole = "manager"
    /\ origin = "/admin" /\ hops = 1
    /\ location = "/unauthorized"
    /\ View = Content("Unauthorized")

\* the session of a client with no persisted token and no login so far
NoSession ==
    /\ persisted = None /\ inflight = None
    /\ user = None /\ token = None
    /\ ~isAuthenticated /\ ~loading

\* C9: a client without persisted token is redirected to /login from every
\* guarded route, and it stays without session (isAuthenticated false) in
\* every step that is not a successful login.
C9_NoTokenToLogin ==
    [][NoSession =>
          /\ \A p \in GuardedPaths : RouteElement(p) = Redirect("/login")
          /\ NoSession' \/ \E identity \in Identities : LoginSuccess(identity)
      ]_vars

\* such a client went to /user and was redirected to /login
C9_Witness ==
    /\ NoSession
    /\ origin = "/user" /\ hops = 1
    /\ location = "/login"
    /\ View = Content("Login")

----------------------------------------------------------------------------
(* Properties of the session store (checked under Spec) *)

\* the Session as logout() leaves it
LoggedOut ==
    /\ persisted = None /\ token = None /\ user = None
    /\ ~isAuthenticated

LoginStep == \E identity \in Identities : LoginSuccess(identity)
ReloadStep == \E path \in Paths : Reload(path)

\* C11 as claimed: handleLogout leaves the persisted token, the token and the
\* identity absent and isAuthenticated false in its own step; from then on,
\* as long as no login succeeds and the page is not reloaded, the Session
\* stays so and every guarded route redirects to /login. (A Session is in
\* LoggedOut with loading true or a fetch in flight only after a logout: a
\* start without token and a failed rehydration both leave loading false and
\* nothing in flight.)
C11_LogoutThenLogin ==
    [][/\ handleLogout => LoggedOut'
       /\ LoggedOut =>
             /\ \A p \in GuardedPaths : RouteElement(p) = Redirect("/login")
             /\ LoggedOut' \/ LoginStep \/ ReloadStep
      ]_vars

\* C12 as claimed: a Session logged out while the identity fetch of a
\* rehydration is in flight stays logged out in every step that is not a
\* successful login, the answer of that fetch included.
C12_LateRehydrationDiscarded ==
    [][(LoggedOut /\ inflight # None) => (LoggedOut' \/ LoginStep)]_vars

\* the step in which the identity fetch of a rehydration fails
FetchFailed ==
    /\ inflight # None
    /\ inflight' = None
    /\ answer'.op = "fetch"
    /\ answer'.result \in FetchFailures

\* C13: a failed identity fetch, whatever the failure (NetworkFailure,
\* Unauthenticated, Forbidden) and whatever the Session held before, leaves
\* the persisted token cleared, identity and token absent and isAuthenticated
\* false; and as long as that failure is the last answer the client got, it
\* stays unauthenticated.
C13_FetchFailureClosed ==
    /\ [][FetchFailed => LoggedOut']_vars
    /\ []((answer.op = "fetch" /\ answer.result \in FetchFailures)
             => LoggedOut)

\* a network failure of the identity fetch has been mapped to the
\* unauthenticated state
C13_Witness ==
    /\ answer = FetchAnswer("NetworkFailure")
    /\ LoggedOut
    /\ ~loading

\* C14: loading is true only while the identity fetch of a rehydration is in
\* flight (so a start without persisted token, a success and every failure
\* leave it false), and a rehydration that is loading eventually ends with
\* loading = false.
C14_RehydrateEnds ==
    /\ [](loading => inflight # None)
    /\ [][(inflight # None /\ inflight' = None) => ~loading']_vars
    /\ loading ~> ~loading

\* a rehydration has ended on its success path
C14_Witness ==
    /\ answer = FetchAnswer("ok")
    /\ inflight = None
    /\ ~loading

\* C15: isAuthenticated is true iff the Session holds a token and the last
\* answer of the login or identity-fetch collaborator was a success; and with
\* isAuthenticated the identity is present.
C15_AuthenticatedIffVerified ==
    /\ isAuthenticated <=> (token # None /\ answer.result = "ok")
    /\ isAuthenticated => (token # None /\ user # None)

\* authenticated by a login that was answered while the rehydration was
\* still pending
C15_Witness ==
    /\ isAuthenticated
    /\ token # None
    /\ user # None
    /\ answer = LoginAnswer("ok")
    /\ loading

\* C16: the step in which a login fails leaves identity, token, persisted
\* token and isAuthenticated as they were, and the caller gets the failure.
C16_FailedLoginFrame ==
    [][/\ LoginFail => answer' = LoginAnswer("CredentialsInvalid")
       /\ (answer' = LoginAnswer("CredentialsInvalid") /\ answer' # answer)
             => UNCHANGED <<persisted, user, token, isAuthenticated>>
      ]_vars

\* a login has failed while a persisted token was waiting for its
\* rehydration, and the token is still there
C16_Witness ==
    /\ answer = LoginAnswer("CredentialsInvalid")
    /\ persisted # None
    /\ inflight = persisted

\* C17: the persisted token goes from present to absent only in a logout or
\* in a failed rehydration, and each of these two does clear it; a successful
\* rehydration, a login (successful or failed), a redirect, a navigation and
\* a page's fetchData (sent, resolved or rejected) never remove it.
C17_ClearedExactly ==
    [][/\ (persisted # None /\ persisted' = None)
             => (handleLogout \/ \E k \in FetchFailures : RehydrateFail(k))
       /\ (handleLogout \/ \E k \in FetchFailures : RehydrateFail(k))
             => persisted' = None
      ]_vars

\* a data request has failed on a page and the persisted token is still
\* there
C17_Witness ==
    /\ pageState.error = "message"
    /\ persisted # None
    /\ isAuthenticated

----------------------------------------------------------------------------
(* Properties of the navigation bar and the public routes (checked under
   Spec) *)

\* C22: whenever the navigation bar renders (a user is present),
\* isAuthenticated is true; and the step of handleLogout leaves the bar not
\* rendered.
C22_NavigationWhenAuthenticated ==
    /\ [](Navigation # Null => isAuthenticated)
    /\ [][handleLogout => Navigation' = Null]_vars

\* the bar of a logged-in manager
C22_Witness ==
    /\ Navigation # Null
    /\ isAuthenticated
    /\ UserRole = "manager"
    /\ Navigation.links = {"/home", "/user", "/manager"}

\* C23 as claimed: in every session state, authenticated or not, /login
\* renders the Login component and /register the Register component.
C23_PublicRoutesOpen ==
    /\ RouteElement("/login") = Content("Login")
    /\ RouteElement("/register") = Content("Register")

\* C27: for a logged-in user, manager or admin, the bar shows the /manager
\* link iff RoleProtectedRoute(['manager','admin']) renders its children and
\* the /admin link iff RoleProtectedRoute(['admin']) renders its children; no
\* link of the bar leads to a redirect to /unauthorized, and every page among
\* /home, /user, /manager, /admin that the route table renders has its link.
C27_LinksAgreeWithGuards ==
    (LoggedIn /\ UserRole \in Roles) =>
        /\ "/manager" \in NavLinks <=>
              RoleProtectedRoute("ManagerPage", {"manager", "admin"})
                 = Content("ManagerPage")
        /\ "/admin" \in NavLinks <=>
              RoleProtectedRoute("AdminPage", {"admin"}) = Content("AdminPage")
        /\ \A l \in NavLinks : RouteElement(l) # Redirect("/unauthorized")
        /\ \A p \in {"/home", "/user", "/manager", "/admin"} :
              RouteElement(p).kind = "content" => p \in NavLinks

\* a logged-in manager on the manager page: the bar has the /manager link and
\* not the /admin link
C27_Witness ==
    /\ LoggedIn
    /\ UserRole = "manager"
    /\ View = Content("ManagerPage")
    /\ "/manager" \in NavLinks
    /\ "/admin" \notin NavLinks

\* the paths a navigation to path goes through while the Session stays as it
\* is: each <Navigate replace /> is followed, at most fuel times
RECURSIVE RedirectChain(_, _)
RedirectChain(path, fuel) ==
    LET e == RouteElement(path) IN
    IF e.kind = "redirect" /\ fuel > 0
    THEN <<path>> \o RedirectChain(e.arg, fuel - 1)
    ELSE <<path>>

\* C25: with loading false, from every path of the route table the redirects
\* end on a route that renders its content, after at most two redirects, and
\* no path occurs twice in the chain.
C25_RedirectsTerminate ==
    ~loading =>
        \A p \in Paths :
            LET chain == RedirectChain(p, Cardinality(Paths)) IN
            /\ RouteElement(chain[Len(chain)]).kind = "content"
            /\ Len(chain) <= 3
            /\ \A i, j \in 1..Len(chain) : i # j => chain[i] # chain[j]

\* the longest chain, followed by the router: / to /home to /login for a
\* client without session
C25_Witness ==
    /\ ~loading /\ ~isAuthenticated
    /\ origin = "/" /\ hops = 2
    /\ location = "/login"
    /\ View = Content("Login")
    /\ RedirectChain("/", Cardinality(Paths)) = <<"/", "/home", "/login">>

\* the role set passed to authorize(...) in a route's middleware stack
AuthorizeRoles(stack) ==
    UNION {stack[i].roles : i \in {k \in 1..Len(stack) : stack[k].mw = "authorize"}}

\* the client routes with a role guard, their page and the server route their
\* page requests
RoleRoutes ==
    {[path |-> "/manager", page |-> "ManagerPage", api |-> "/manager"],
     [path |-> "/admin", page |-> "AdminPage", api |-> "/admin"]}

\* C26: allowedRoles of the client routes /manager and /admin are the role
\* sets of authorize on the server routes /manager and /admin; so for a
\* logged-in session whose identity role is its token's role, at any time of
\* the request: if the guard renders the page the server does not answer the
\* page's request with Forbidden, and if the server answers Forbidden the
\* guard redirects to /unauthorized.
C26_RouteTablesAgree ==
    /\ ManagerRouteRoles = AuthorizeRoles(ManagerStack)
    /\ AdminRouteRoles = AuthorizeRoles(AdminStack)
    /\ (LoggedIn /\ token # None /\ UserRole = token.role) =>
          \A r \in RoleRoutes, t \in Times :
              LET answered == Dispatch(r.api, token, t).outcome IN
              /\ RouteElement(r.path) = Content(r.page) => answered # "Forbidden"
              /\ answered = "Forbidden" =>
                    RouteElement(r.path) = Redirect("/unauthorized")

\* a manager whose token says manager: the guard of /admin redirects and the
\* server refuses, the guard of /manager renders and the server answers
C26_Witness ==
    /\ LoggedIn /\ token # None
    /\ UserRole = "manager" /\ token.role = "manager"
    /\ View = Content("ManagerPage")
    /\ Dispatch("/manager", token, 0).outcome = "OK"
    /\ Dispatch("/admin", token, 0).outcome = "Forbidden"
    /\ RouteElement("/admin") = Redirect("/unauthorized")

----------------------------------------------------------------------------
(* Properties of the data pages (checked under PageSpec) *)

\* C30: on UserPage, ManagerPage and AdminPage, fetchData sets loading and
\* clears error before the request is sent (so error is null while loading)
\* and keeps data; while the page stays on screen loading ends only by the
\* request succeeding (data set, error still null) or failing (error set,
\* data as before); and a page that is loading eventually is not.
C30_FetchDataLifecycle ==
    /\ [][fetchData => pageState'.loading]_vars
    /\ [][(~pageState.loading /\ pageState'.loading) =>
             /\ pageState'.error = "null"
             /\ pageState'.data = pageState.data]_vars
    /\ [](pageState.loading => (Mounted(View) /\ pageState.error = "null"))
    /\ [][(pageState.loading /\ ~pageState'.loading /\ View' = View) =>
             \/ /\ pageState'.data = "response"
                /\ pageState'.error = "null"
             \/ /\ pageState'.error = "message"
                /\ pageState'.data = pageState.data]_vars
    /\ [][fetchDataResolved => ~pageState'.loading]_vars
    /\ [][fetchDataRejected =>
             /\ ~pageState'.loading
             /\ pageState'.error = "message"
             /\ pageState'.data = pageState.data]_vars
    /\ pageState.loading ~> ~pageState.loading

\* on the admin page a request failed after an earlier one had succeeded: the
\* error is shown and the fetched data is still there
C30_Witness ==
    /\ View = Content("AdminPage")
    /\ pageState = [loading |-> FALSE, data |-> "response", error |-> "message"]

----------------------------------------------------------------------------
(* Properties of the components on their own (checked under ComponentSpec) *)

\* the hierarchy user < manager < admin
Rank(r) ==
    CASE r = "user" -> 1
      [] r = "manager" -> 2
      [] r = "admin" -> 3

\* C21: for a user whose role is user, manager or admin, canAccess('user')
\* is true, canAccess('manager') is true exactly for manager and admin,
\* canAccess('admin') exactly for admin: canAccess(required) is true iff the
\* user's role is at least the required one in user < manager < admin.
C21_Hierarchy ==
    (rendered.component = "canAccess" /\ UserRole \in Roles
       /\ rendered.props \in Roles) =>
        /\ rendered.element <=> Rank(UserRole) >= Rank(rendered.props)
        /\ rendered.props = "user" => rendered.element
        /\ rendered.props = "manager" =>
              (rendered.element <=> UserRole \in {"manager", "admin"})
        /\ rendered.props = "admin" =>
              (rendered.element <=> UserRole = "admin")

\* an admin asked for the manager requirement: the higher role satisfies the
\* lower requirement
C21_Witness ==
    /\ rendered.component = "canAccess"
    /\ UserRole = "admin"
    /\ rendered.props = "manager"
    /\ rendered.element

\* C28: with loading false and isAuthenticated true, RoleProtectedRoute
\* redirects to /unauthorized when allowedRoles is omitted, when the user is
\* absent or has no role, and when user.role is not in allowedRoles; its
\* children render only for a role that allowedRoles lists.
C28_FailClosed ==
    (rendered.component = "RoleProtectedRoute" /\ ~loading /\ isAuthenticated) =>
        LET props == rendered.props
            given == "allowedRoles" \in DOMAIN props
        IN  /\ ~given => rendered.element = Redirect("/unauthorized")
            /\ UserRole = Undefined =>
                  rendered.element = Redirect("/unauthorized")
            /\ (given /\ UserRole \notin props.allowedRoles) =>
                  rendered.element = Redirect("/unauthorized")
            /\ rendered.element.kind = "content" =>
                  (given /\ UserRole \in props.allowedRoles)

\* an authenticated admin on a RoleProtectedRoute written without
\* allowedRoles
C28_Witness ==
    /\ rendered.component = "RoleProtectedRoute"
    /\ ~loading /\ isAuthenticated
    /\ UserRole = "admin"
    /\ "allowedRoles" \notin DOMAIN rendered.props
    /\ rendered.element = Redirect("/unauthorized")

\* C29: canAccess is false for every requiredRole when there is no user, and
\* for every user when requiredRole is not user, manager or admin; it is true
\* for requiredRole 'user' whenever a user is present, whatever its role.
C29_DenyByDefault ==
    rendered.component = "canAccess" =>
        /\ user = None => ~rendered.element
        /\ rendered.props \notin Roles => ~rendered.element
        /\ (rendered.props = "user" /\ user # None) => rendered.element

\* an admin asked for the guide's 'editor' requirement
C29_Witness ==
    /\ rendered.component = "canAccess"
    /\ UserRole = "admin"
    /\ rendered.props = "editor"
    /\ ~rendered.element

====
